---- MODULE Spec2Model ----
(***************************************************************************)
(* Model of the provider dev server (src/dev-server.js and its older       *)
(* sibling src/unnamed/part_000).                                          *)
(*                                                                         *)
(* Spec         the execution engine: DevServer.executeProviderFunction    *)
(*              driven by POST /execute-provider, the Node module cache    *)
(*              (require.cache), and an external build process that        *)
(*              rewrites the dist directory at any time.                   *)
(* SpecCatalog  the GET /catalog/:provider handler of both server files,   *)
(*              run on source texts made of lexical tokens.                *)
(* SpecRegistry DevServer.getAvailableProviders between changes of the     *)
(*              dist directory.                                            *)
(* SpecContext  the object literal executeProviderFunction passes to the   *)
(*              provider function, built from parameter objects of a       *)
(*              request body.                                              *)
(***************************************************************************)
EXTENDS Integers, Sequences, FiniteSets, TLC

(***************************************************************************)
(* Bounds                                                                  *)
(***************************************************************************)
\* number of writes the external build process performs
MaxBuilds == 2
\* number of calls of executeProviderFunction
MaxCalls == 2

\* request slots (requests in flight at the same time)
Reqs == {"r1", "r2"}
NoReq == "none"
\* provider ids seen in requests
Providers == {"p1", "p2"}
\* the artifacts the build process rewrites: <<provider, module group>>
BuildPaths == {<<"p1", "posts">>, <<"p1", "meta">>, <<"p2", "posts">>}

(***************************************************************************)
(* Capabilities and module groups                                          *)
(***************************************************************************)
\* the keys of the functionMap literal
functionMapKeys == {"getPosts", "getSearchPosts", "getMeta", "getStream", "getEpisodes"}

\* names every object literal inherits from Object.prototype; the value found
\* under each of them is truthy
PrototypeKeys == {"constructor", "toString", "__proto__"}

\* function names a request may carry
FunctionNames == functionMapKeys \cup PrototypeKeys \cup {"bogus"}

Groups == {"posts", "meta", "stream", "episodes"}

\* functionMap[functionName] is truthy: own keys, and the keys the literal
\* inherits
functionMapLookup(functionName) ==
  functionName \in functionMapKeys \cup PrototypeKeys

\* (mutant) every capability is read from the posts artifact
PostsModuleForAll(functionName) ==
  IF functionName \in {"getPosts", "getSearchPosts", "getMeta", "getStream", "getEpisodes"}
    THEN "posts"
    ELSE "none"
\* (mutant) a final else reads the posts artifact for every other name
AnyOtherNameReadsPosts(functionName) ==
  CASE functionName \in {"getPosts", "getSearchPosts"} -> "posts"
    [] functionName = "getMeta" -> "meta"
    [] functionName = "getStream" -> "stream"
    [] functionName = "getEpisodes" -> "episodes"
    [] OTHER -> "posts"
\* the if / else-if chain choosing modulePath; "none" when no branch is taken
\* and modulePath stays undefined
ModuleGroup(functionName) ==
  CASE functionName \in {"getPosts", "getSearchPosts"} -> "posts"
    [] functionName = "getMeta" -> "meta"
    [] functionName = "getStream" -> "stream"
    [] functionName = "getEpisodes" -> "episodes"
    [] OTHER -> "none"

\* the functions a complete artifact of a module group exports
GroupExports(g) ==
  CASE g = "posts" -> {"getPosts", "getSearchPosts"}
    [] g = "meta" -> {"getMeta"}
    [] g = "stream" -> {"getStream"}
    [] g = "episodes" -> {"getEpisodes"}
    [] OTHER -> {}

\* what a build may leave exported: everything, or all but one function (a
\* provider may omit a capability)
ExportChoices(g) ==
  {GroupExports(g)} \cup {GroupExports(g) \ {f} : f \in GroupExports(g)}

(***************************************************************************)
(* Values                                                                  *)
(***************************************************************************)
\* a compiled artifact on disk
AbsentArtifact == [state |-> "absent", ver |-> 0, exports |-> {}]
PartialArtifact(v) == [state |-> "partial", ver |-> v, exports |-> {}]
GoodArtifact(v, ex) == [state |-> "ok", ver |-> v, exports |-> ex]
\* a file caught while it is written either throws when it is loaded
\* (PartialArtifact) or is cut where the text read so far loads - an empty
\* file at the least - and exports nothing yet
TruncatedArtifact(v) == [state |-> "truncated", ver |-> v, exports |-> {}]

\* a loaded module (handle): the artifact version it was loaded from and its
\* exports
NoHandle == [ver |-> 0, exports |-> {}]
\* a function object: the artifact version that defines it, and its name
NoFn == [ver |-> 0, name |-> ""]

\* path.join(__dirname, "dist", "providerContext")
ContextPath == <<"", "providerContext">>
\* path.join(this.distDir, provider, '<group>.js')
ModulePath(provider, g) == <<provider, g>>

\* error messages: the template text and its two interpolated values
Msg(text, a, b) == <<text, a, b>>
NoMsg == <<"", "", "">>
\* thrown values: an Error with a message, a thrown non-Error string, or a
\* thrown null / undefined
ErrorOf(m) == [kind |-> "Error", message |-> m]
NoThrow == [kind |-> "none", message |-> NoMsg]
ThrownString == [kind |-> "string", message |-> NoMsg]
ThrownNull == [kind |-> "null", message |-> NoMsg]

UnknownFunction(functionName) ==
  ErrorOf(Msg("Unknown function: ", functionName, ""))
\* (mutant) the import error is rethrown as it is
RethrowImportError(provider, functionName) ==
  ErrorOf(Msg("Cannot find module ", provider, ModuleGroup(functionName)))
\* the inner catch wraps every import error in one message
ProviderFunctionNotFound(provider, functionName) ==
  ErrorOf(Msg("Provider function not found: ", provider, functionName))
FunctionNotExported(functionName, provider) ==
  ErrorOf(Msg("Function not exported: ", functionName, provider))
CannotFindModule(path) ==
  ErrorOf(Msg("Cannot find module ", path[1], path[2]))

\* the values a provider function resolves with: lists of post summaries
\* { title, link }, whose strings are sequences of characters
NoPosts == <<>>
ThreePosts ==
  <<[title |-> <<"One">>, link |-> <<"/", "one">>],
    [title |-> <<"Two">>, link |-> <<"/", "two">>],
    [title |-> <<"Three">>, link |-> <<"/", "three">>]>>
ProviderResults == {NoPosts, ThreePosts}

\* JSON.stringify: the text of a string, of a post summary, of a list of them
JsonString(w) == <<"\"">> \o w \o <<"\"">>
JsonPost(post) ==
  <<"{">> \o JsonString(<<"title">>) \o <<":">> \o JsonString(post.title) \o <<",">>
          \o JsonString(<<"link">>) \o <<":">> \o JsonString(post.link) \o <<"}">>
RECURSIVE JsonPostsFrom(_, _)
JsonPostsFrom(posts, i) ==
  IF i > Len(posts) THEN <<>>
  ELSE (IF i > 1 THEN <<",">> ELSE <<>>) \o JsonPost(posts[i]) \o JsonPostsFrom(posts, i + 1)
JsonPosts(posts) == <<"[">> \o JsonPostsFrom(posts, 1) \o <<"]">>

\* what a provider function may throw or reject with
ProviderThrows(provider, functionName) ==
  { ErrorOf(Msg("boom", "", "")),
    ProviderFunctionNotFound(provider, functionName),
    ThrownString,
    ThrownNull }

(***************************************************************************)
(* State                                                                   *)
(***************************************************************************)
VARIABLES
  artifact,       \* the files under dist: path -> compiled artifact
  providerDir,    \* provider id -> a directory dist/<id> exists
  requireCache,   \* require.cache: the set of entries [path, handle]
  builds,         \* writes of the external build process so far
  calls,          \* calls of executeProviderFunction so far
  req,            \* request slot -> state of the request running in it
  running,        \* the request whose synchronous code holds the thread
  unhandled,      \* an error escaped a route handler (unhandled rejection)
  server,         \* the server file that runs: "dev-server.js" or "part_000"
  catalogSource,  \* providers/<provider>/catalog.ts: [exists, text]
  catalogResult,  \* the last catalog request: the file it read, its response
  distRoot,       \* the directory dist exists
  listing,        \* the last result of getAvailableProviders
  execution       \* the last executionParams built, and what it was built from

engineVars ==
  <<artifact, providerDir, requireCache, builds, calls, req, running,
    unhandled>>

catalogVars == <<server, catalogSource, catalogResult>>

registryVars == <<distRoot, listing>>

contextVars == <<execution>>

vars == <<engineVars, catalogVars, registryVars, contextVars>>

Paths == {ContextPath} \cup {ModulePath(p, g) : p \in Providers, g \in Groups}

\* a response: the status, the message of an error object, and for a result
\* the function that produced it and the JSON text sent (body)
NoResponse == [status |-> 0, error |-> NoMsg, result |-> NoFn, body |-> <<>>]

\* an AbortSignal: the allocation it comes from (id, 0 for none) and its
\* aborted flag
NoSignal == [id |-> 0, aborted |-> FALSE]

\* a request: where its handler stands (pc), its arguments, the function bound
\* so far, the module of the provider context it got from require (context),
\* the signal passed to the function, the value it resolved with (returned, with resolved telling that
\* it did), what it threw and what was answered; seq numbers the call, and
\* requires, loads, importError and invocations record what the call did:
\* require(modulePath) calls made, artifacts read from disk by them, the
\* importError the inner catch logged, and calls of the provider function
IdleReq ==
  [pc |-> "idle", seq |-> 0, provider |-> "", functionName |-> "",
   providerFunction |-> NoFn, requires |-> 0, loads |-> 0,
   importError |-> "", invocations |-> 0,
   context |-> NoHandle, signal |-> NoSignal,
   resolved |-> FALSE, returned |-> NoPosts,
   thrown |-> NoThrow, response |-> NoResponse]

(***************************************************************************)
(* Node's require and require.cache                                        *)
(***************************************************************************)
Cached(cache, path) == \E e \in cache : e.path = path

CachedHandle(cache, path) == (CHOOSE e \in cache : e.path = path).handle

\* (mutant) the provider context is evicted with the module
EvictWithContext(cache, path) == {e \in cache : e.path \notin {path, ContextPath}}
\* (mutant) every module of the provider is evicted with the one resolved
EvictProvider(cache, path) == {e \in cache : e.path[1] # path[1]}
\* (mutant) the cached handle is kept
EvictNothing(cache, path) == cache
\* delete require.cache[path]
Evict(cache, path) == {e \in cache : e.path # path}

\* (mutant) the file is read at every require, the cache is only written
RequireIgnoresCache(cache, path, art) ==
  IF art.state \in {"ok", "truncated"}
    THEN [ok |-> TRUE, fresh |-> TRUE, error |-> "",
          handle |-> [ver |-> art.ver, exports |-> art.exports],
          cache |-> cache \cup
            {[path |-> path,
              handle |-> [ver |-> art.ver, exports |-> art.exports]]}]
  ELSE [ok |-> FALSE, fresh |-> FALSE,
        error |-> IF art.state = "absent" THEN "MODULE_NOT_FOUND" ELSE "LoadError",
        handle |-> NoHandle, cache |-> cache]
\* (mutant) a missing or broken file yields an empty module instead of
\* throwing
RequireNoThrow(cache, path, art) ==
  IF Cached(cache, path)
    THEN [ok |-> TRUE, fresh |-> FALSE, error |-> "",
          handle |-> CachedHandle(cache, path), cache |-> cache]
    ELSE [ok |-> TRUE, fresh |-> TRUE, error |-> "",
          handle |-> [ver |-> art.ver, exports |-> art.exports],
          cache |-> cache \cup
            {[path |-> path,
              handle |-> [ver |-> art.ver, exports |-> art.exports]]}]

\* (mutant) a load that throws leaves its module object in the cache
RequireCachesFailedLoad(cache, path, art) ==
  IF Cached(cache, path)
    THEN [ok |-> TRUE, fresh |-> FALSE, error |-> "",
          handle |-> CachedHandle(cache, path), cache |-> cache]
  ELSE IF art.state \in {"ok", "truncated"}
    THEN [ok |-> TRUE, fresh |-> TRUE, error |-> "",
          handle |-> [ver |-> art.ver, exports |-> art.exports],
          cache |-> cache \cup
            {[path |-> path,
              handle |-> [ver |-> art.ver, exports |-> art.exports]]}]
  ELSE [ok |-> FALSE, fresh |-> FALSE,
        error |-> IF art.state = "absent" THEN "MODULE_NOT_FOUND" ELSE "LoadError",
        handle |-> NoHandle,
        cache |-> cache \cup {[path |-> path, handle |-> NoHandle]}]

\* require(path) with the file at `path` holding `art`: a cached handle is
\* returned without reading the disk; otherwise the file is loaded into a new
\* module object that is cached, and that is dropped again when the load throws
Require(cache, path, art) ==
  IF Cached(cache, path)
    THEN [ok |-> TRUE, fresh |-> FALSE, error |-> "",
          handle |-> CachedHandle(cache, path), cache |-> cache]
  ELSE IF art.state \in {"ok", "truncated"}
    THEN [ok |-> TRUE, fresh |-> TRUE, error |-> "",
          handle |-> [ver |-> art.ver, exports |-> art.exports],
          cache |-> cache \cup
            {[path |-> path,
              handle |-> [ver |-> art.ver, exports |-> art.exports]]}]
  ELSE [ok |-> FALSE, fresh |-> FALSE,
        error |-> IF art.state = "absent" THEN "MODULE_NOT_FOUND" ELSE "LoadError",
        handle |-> NoHandle, cache |-> cache]

\* module.<name>: the exported function, or undefined
Export(handle, name) ==
  IF name \in handle.exports
    THEN [ver |-> handle.ver, name |-> name]
    ELSE NoFn

(***************************************************************************)
(* POST /execute-provider                                                  *)
(***************************************************************************)
\* (mutant) the result is sent inside an envelope { data: result }
EnvelopeBody(posts) ==
  <<"{">> \o JsonString(<<"data">>) \o <<":">> \o JsonPosts(posts) \o <<"}">>
\* res.json(result): the body is the JSON text of the value
ResultBody(posts) == JsonPosts(posts)

\* (mutant) the result is credited to the implementation of the latest build
LatestBuildResponse(fn, posts) ==
  [status |-> 200, error |-> NoMsg,
   result |-> [ver |-> builds + 1, name |-> fn.name],
   body |-> ResultBody(posts)]
\* the response to a call whose function `fn` resolved with `posts`
SuccessResponse(fn, posts) ==
  [status |-> 200, error |-> NoMsg, result |-> fn, body |-> ResultBody(posts)]

\* error.message || "Provider execution failed"
ErrorMessageOr(thrown) ==
  IF thrown.kind = "Error" /\ thrown.message # NoMsg
    THEN thrown.message
    ELSE Msg("Provider execution failed", "", "")

\* the route's catch block: reading error.message of a thrown null or
\* undefined throws inside the catch, the route sends no response and the
\* error leaves the handler
RouteCatchThrows(thrown) == thrown.kind = "null"

ErrorResponse(thrown) ==
  IF RouteCatchThrows(thrown)
    THEN NoResponse
    ELSE [status |-> 500, error |-> ErrorMessageOr(thrown), result |-> NoFn,
          body |-> <<>>]

\* (mutant) a function that failed is called a second time before the error
\* is reported
FailedAfterRetry(q, thrown) ==
  [q EXCEPT !.pc = "done", !.thrown = thrown, !.response = ErrorResponse(thrown),
            !.invocations = IF q.invocations > 0 THEN q.invocations + 1 ELSE 0]
\* a request ends with `thrown`: executeProviderFunction's outer catch
\* rethrows it unchanged, and the route's catch answers
Failed(q, thrown) ==
  [q EXCEPT !.pc = "done", !.thrown = thrown, !.response = ErrorResponse(thrown)]

(***************************************************************************)
(* DevServer.executeProviderFunction, one action per synchronous step      *)
(***************************************************************************)
\* (mutant) a handler starts while another request is inside its resolution,
\* as it could if the resolution awaited
CanStartAnytime == TRUE
\* synchronous code runs to completion: no other request's code runs while a
\* request holds the thread
CanStart == running = NoReq
CanStep(r) == running = r

modulePath(q) == ModulePath(q.provider, ModuleGroup(q.functionName))

\* (mutant) one controller made when the server starts serves every call
SharedSignal(q) == [id |-> 1, aborted |-> FALSE]
\* new AbortController().signal: a new object per evaluation, which happens
\* once in a call; the call's number names the allocation. The controller is
\* not kept, so nothing can abort the signal
NewSignal(q) == [id |-> q.seq, aborted |-> FALSE]

\* (mutant) the function is called without the check
InvokeUnchecked(q) ==
  [q EXCEPT !.pc = "awaiting", !.invocations = q.invocations + 1,
            !.signal = NewSignal(q)]
\* if (!providerFunction) throw; otherwise the execution parameters are
\* built, the function is called and the request is suspended in `await`
CheckAndInvoke(q) ==
  IF q.providerFunction = NoFn
    THEN Failed(q, FunctionNotExported(q.functionName, q.provider))
    ELSE [q EXCEPT !.pc = "awaiting", !.invocations = q.invocations + 1,
                   !.signal = NewSignal(q)]

\* the request is accepted: providerContext is required, the function name
\* is looked up in functionMap, and the module artifact is required and bound
\* a first time
Call(r, provider, functionName) ==
  /\ CanStart
  /\ req[r].pc \in {"idle", "done"}
  /\ calls < MaxCalls
  /\ calls' = calls + 1
  /\ LET ctx == Require(requireCache, ContextPath, artifact[ContextPath])
         q == [IdleReq EXCEPT !.seq = calls + 1, !.provider = provider,
                              !.functionName = functionName,
                              !.context = ctx.handle]
         path == modulePath(q)
     IN IF ~ctx.ok
          THEN /\ req' = [req EXCEPT ![r] = Failed(q, CannotFindModule(ContextPath))]
               /\ requireCache' = ctx.cache
               /\ running' = NoReq
        ELSE IF ~functionMapLookup(functionName)
          THEN /\ req' = [req EXCEPT ![r] = Failed(q, UnknownFunction(functionName))]
               /\ requireCache' = ctx.cache
               /\ running' = NoReq
        ELSE IF ModuleGroup(functionName) = "none"
          THEN /\ req' = [req EXCEPT ![r] = [q EXCEPT !.pc = "evict"]]
               /\ requireCache' = ctx.cache
               /\ running' = r
        ELSE LET m == Require(ctx.cache, path, artifact[path])
             IN /\ requireCache' = m.cache
                /\ IF m.ok
                     THEN /\ req' = [req EXCEPT ![r] =
                               [q EXCEPT !.pc = "evict",
                                         !.providerFunction = Export(m.handle, functionName),
                                         !.requires = 1,
                                         !.loads = IF m.fresh THEN 1 ELSE 0]]
                          /\ running' = r
                     ELSE /\ req' = [req EXCEPT ![r] =
                               Failed([q EXCEPT !.requires = 1, !.importError = m.error],
                                      ProviderFunctionNotFound(provider, functionName))]
                          /\ running' = NoReq
  /\ UNCHANGED <<artifact, providerDir, builds, unhandled>>

\* if (modulePath && require.cache[modulePath]) delete require.cache[modulePath];
\* when the condition is false the block is skipped
ClearRequireCache(r) ==
  /\ CanStep(r)
  /\ req[r].pc = "evict"
  /\ LET q == req[r]
         path == modulePath(q)
     IN IF ModuleGroup(q.functionName) # "none" /\ Cached(requireCache, path)
          THEN /\ requireCache' = Evict(requireCache, path)
               /\ req' = [req EXCEPT ![r].pc = "reload"]
               /\ UNCHANGED running
          ELSE /\ req' = [req EXCEPT ![r] = CheckAndInvoke(q)]
               /\ running' = NoReq
               /\ UNCHANGED requireCache
  /\ UNCHANGED <<artifact, providerDir, builds, calls, unhandled>>

\* the second require, after the eviction, the second binding, and the call
Reload(r) ==
  /\ CanStep(r)
  /\ req[r].pc = "reload"
  /\ LET q == req[r]
         path == modulePath(q)
         m == Require(requireCache, path, artifact[path])
     IN /\ requireCache' = m.cache
        /\ IF m.ok
             THEN req' = [req EXCEPT ![r] =
                    CheckAndInvoke(
                      [q EXCEPT !.providerFunction = Export(m.handle, q.functionName),
                                !.requires = q.requires + 1,
                                !.loads = IF m.fresh THEN q.loads + 1
                                                     ELSE q.loads])]
             ELSE req' = [req EXCEPT ![r] =
                    Failed([q EXCEPT !.requires = q.requires + 1,
                                     !.importError = m.error],
                           ProviderFunctionNotFound(q.provider, q.functionName))]
  /\ running' = NoReq
  /\ UNCHANGED <<artifact, providerDir, builds, calls, unhandled>>

\* the awaited call resolves with `posts`: executeProviderFunction returns the
\* value and the route sends it
SettleResult(r, posts) ==
  /\ CanStart
  /\ req[r].pc = "awaiting"
  /\ req' = [req EXCEPT ![r].pc = "done",
                         ![r].resolved = TRUE,
                         ![r].returned = posts,
                         ![r].response = SuccessResponse(req[r].providerFunction, posts)]
  /\ UNCHANGED <<artifact, providerDir, requireCache, builds, calls,
                 running, unhandled>>

\* the awaited call throws or rejects
SettleThrow(r, thrown) ==
  /\ CanStart
  /\ req[r].pc = "awaiting"
  /\ req' = [req EXCEPT ![r] = Failed(req[r], thrown)]
  /\ unhandled' = (unhandled \/ RouteCatchThrows(thrown))
  /\ UNCHANGED <<artifact, providerDir, requireCache, builds, calls, running>>

(***************************************************************************)
(* What a step or a state says about a request                             *)
(***************************************************************************)
\* this step ends the resolution of r's call: it throws, or it calls the
\* provider function
ResolutionEnds(r) ==
  /\ req'[r] # req[r]
  /\ req[r].pc # "awaiting"
  /\ req'[r].pc \in {"done", "awaiting"}

\* the handle a load of the artifact at `path`, as it is on disk, produces
DiskHandle(path) == [ver |-> artifact[path].ver, exports |-> artifact[path].exports]

\* the message texts of the errors the resolution raises
ResolutionErrorTexts ==
  {"Unknown function: ", "Provider function not found: ", "Function not exported: "}

(***************************************************************************)
(* The external build process                                              *)
(***************************************************************************)
\* a module artifact is written completely
WriteArtifact(p, g, ex) ==
  /\ builds < MaxBuilds
  /\ builds' = builds + 1
  /\ artifact' = [artifact EXCEPT ![ModulePath(p, g)] = GoodArtifact(builds + 2, ex)]
  /\ providerDir' = [providerDir EXCEPT ![p] = TRUE]
  /\ UNCHANGED <<requireCache, calls, req, running, unhandled>>

\* a module artifact is being written: the file is there and throws on load
WritePartial(p, g) ==
  /\ builds < MaxBuilds
  /\ builds' = builds + 1
  /\ artifact' = [artifact EXCEPT ![ModulePath(p, g)] = PartialArtifact(builds + 2)]
  /\ providerDir' = [providerDir EXCEPT ![p] = TRUE]
  /\ UNCHANGED <<requireCache, calls, req, running, unhandled>>

\* a module artifact is being written: the file is there, cut where it loads
WriteTruncated(p, g) ==
  /\ builds < MaxBuilds
  /\ builds' = builds + 1
  /\ artifact' = [artifact EXCEPT ![ModulePath(p, g)] = TruncatedArtifact(builds + 2)]
  /\ providerDir' = [providerDir EXCEPT ![p] = TRUE]
  /\ UNCHANGED <<requireCache, calls, req, running, unhandled>>

\* a provider's directory is removed with all its artifacts
RemoveProviderDir(p) ==
  /\ builds < MaxBuilds
  /\ providerDir[p]
  /\ builds' = builds + 1
  /\ artifact' = [path \in Paths |->
                    IF path # ContextPath /\ path[1] = p THEN AbsentArtifact
                                                         ELSE artifact[path]]
  /\ providerDir' = [providerDir EXCEPT ![p] = FALSE]
  /\ UNCHANGED <<requireCache, calls, req, running, unhandled>>

\* dist/providerContext.js is written by a build
WriteProviderContext ==
  /\ builds < MaxBuilds
  /\ builds' = builds + 1
  /\ artifact' = [artifact EXCEPT
                    ![ContextPath] = GoodArtifact(builds + 2, {"providerContext"})]
  /\ UNCHANGED <<providerDir, requireCache, calls, req, running, unhandled>>

\* dist/providerContext.js is removed
RemoveProviderContext ==
  /\ builds < MaxBuilds
  /\ artifact[ContextPath].state # "absent"
  /\ builds' = builds + 1
  /\ artifact' = [artifact EXCEPT ![ContextPath] = AbsentArtifact]
  /\ UNCHANGED <<providerDir, requireCache, calls, req, running, unhandled>>

(***************************************************************************)
(* Source text of providers/<provider>/catalog.ts                          *)
(*                                                                         *)
(* A text is a sequence of lexical tokens: a maximal run of word           *)
(* characters (\w+) is one token, every other character is a token of its  *)
(* own. The texts drawn hold no backslash and no object with a repeated    *)
(* key.                                                                    *)
(***************************************************************************)
Whitespace == {" ", "\n"}
Punctuation == {"[", "]", "{", "}", ":", ",", "'", "\"", ";", "=", "/", "-"}
IsWord(t) == t \notin Whitespace \cup Punctuation
\* the word tokens that are JSON numbers, and the JSON literals
NumberTokens == {"0", "1", "2"}
LiteralTokens == {"true", "false", "null"}

From(s, i) == SubSeq(s, i, Len(s))

StartsWith(s, i, pat) ==
  /\ i + Len(pat) - 1 <= Len(s)
  /\ \A k \in 1..Len(pat) : s[i + k - 1] = pat[k]

\* the literal part of /export const <name> = (\[[\s\S]*?\]);/ up to the "["
DeclPrefix(name) == <<"export", " ", "const", " ", name, " ", "=", " ">>

\* content.match(/export const <name> = (\[[\s\S]*?\]);/): the leftmost
\* start, and from its "[" the shortest text that ends in "]" followed by ";";
\* group is the captured array literal
MatchDecl(text, name) ==
  LET pat == DeclPrefix(name) \o <<"[">>
      starts == {i \in 1..Len(text) : StartsWith(text, i, pat)}
  IN IF starts = {} THEN [found |-> FALSE, group |-> <<>>]
     ELSE LET i == CHOOSE x \in starts : \A y \in starts : x <= y
              b == i + Len(pat) - 1
              ends == {e \in (b + 1)..(Len(text) - 1) :
                         text[e] = "]" /\ text[e + 1] = ";"}
          IN IF ends = {} THEN [found |-> FALSE, group |-> <<>>]
             ELSE [found |-> TRUE,
                   group |-> SubSeq(text, b,
                                    CHOOSE x \in ends : \A y \in ends : x <= y)]

\* the number of whitespace tokens s starts with
RECURSIVE LeadingWs(_)
LeadingWs(s) ==
  IF s # <<>> /\ Head(s) \in Whitespace THEN 1 + LeadingWs(Tail(s)) ELSE 0

\* the pieces piece[lo..hi] joined in order
RECURSIVE Join(_, _, _)
Join(piece, lo, hi) ==
  IF lo > hi THEN <<>>
  ELSE IF lo = hi THEN piece[lo]
  ELSE LET mid == (lo + hi) \div 2
       IN Join(piece, lo, mid) \o Join(piece, mid + 1, hi)

\* s[a..b] is whitespace only
AllWs(s, a, b) == \A k \in a..b : s[k] \in Whitespace

\* a match of /(\w+):\s*/ starts at i: a word token and the colon after it
KeyAt(s, i) == IsWord(s[i]) /\ i < Len(s) /\ s[i + 1] = ":"

\* .replace(/(\w+):\s*/g, '"$1": '): the word of a match is replaced by the
\* quoted word, a colon and one space; the colon and the whitespace after it
\* are part of the match and vanish. Matches cannot overlap: a match holds one
\* word, at its start
QuoteKeys(s) ==
  LET piece == [i \in 1..Len(s) |->
        IF KeyAt(s, i) THEN <<"\"", s[i], "\"", ":", " ">>
        ELSE IF \E j \in 1..(i - 1) : KeyAt(s, j) /\ AllWs(s, j + 2, i) THEN <<>>
        ELSE <<s[i]>>]
  IN Join(piece, 1, Len(s))

\* .replace(/,(\s*[\]\}])/g, '$1'): a comma vanishes when only whitespace
\* separates it from the next closing bracket or brace
DropTrailingCommas(s) ==
  LET piece == [i \in 1..Len(s) |->
        IF s[i] = "," /\ \E j \in (i + 1)..Len(s) :
                            s[j] \in {"]", "}"} /\ AllWs(s, i + 1, j - 1)
          THEN <<>>
          ELSE <<s[i]>>]
  IN Join(piece, 1, Len(s))

\* .replace(/'/g, '"')
DoubleQuotes(s) == [i \in 1..Len(s) |-> IF s[i] = "'" THEN "\"" ELSE s[i]]

\* the three replacements, in the order of the code
Normalize(group) == DoubleQuotes(DropTrailingCommas(QuoteKeys(group)))

(***************************************************************************)
(* JSON.parse, and the JSON text res.json writes for the parsed value      *)
(***************************************************************************)
ParseFail == [ok |-> FALSE, next |-> 0, out |-> <<>>, n |-> 0]

\* the first index from i on that holds no whitespace
SkipWs(s, i) == i + LeadingWs(From(s, i))

\* a string: from the quote at i to the next quote; a line break inside is an
\* error
ParseString(s, i) ==
  LET closes == {j \in (i + 1)..Len(s) : s[j] = "\""}
  IN IF closes = {} THEN ParseFail
     ELSE LET j == CHOOSE x \in closes : \A y \in closes : x <= y
          IN IF \E k \in (i + 1)..(j - 1) : s[k] = "\n" THEN ParseFail
             ELSE [ok |-> TRUE, next |-> j + 1, out |-> SubSeq(s, i, j), n |-> 0]

RECURSIVE ParseValue(_, _), ParseElements(_, _, _, _), ParseMembers(_, _, _)

\* a value starting at i (no whitespace at i): next is the index after it,
\* out its JSON text without whitespace, n the length of an array
ParseValue(s, i) ==
  IF i > Len(s) THEN ParseFail
  ELSE IF s[i] = "\"" THEN ParseString(s, i)
  ELSE IF s[i] \in NumberTokens \cup LiteralTokens
    THEN [ok |-> TRUE, next |-> i + 1, out |-> <<s[i]>>, n |-> 0]
  ELSE IF s[i] = "-" /\ i < Len(s) /\ s[i + 1] \in NumberTokens
    THEN [ok |-> TRUE, next |-> i + 2, out |-> <<"-", s[i + 1]>>, n |-> 0]
  ELSE IF s[i] = "["
    THEN LET j == SkipWs(s, i + 1)
         IN IF j <= Len(s) /\ s[j] = "]"
              THEN [ok |-> TRUE, next |-> j + 1, out |-> <<"[", "]">>, n |-> 0]
              ELSE ParseElements(s, j, <<"[">>, 0)
  ELSE IF s[i] = "{"
    THEN LET j == SkipWs(s, i + 1)
         IN IF j <= Len(s) /\ s[j] = "}"
              THEN [ok |-> TRUE, next |-> j + 1, out |-> <<"{", "}">>, n |-> 0]
              ELSE ParseMembers(s, j, <<"{">>)
  ELSE ParseFail

\* the elements of an array from i on; acc is the text so far, n the count
ParseElements(s, i, acc, n) ==
  LET v == ParseValue(s, i)
      j == SkipWs(s, v.next)
  IN IF ~v.ok \/ j > Len(s) THEN ParseFail
     ELSE IF s[j] = ","
       THEN ParseElements(s, SkipWs(s, j + 1), acc \o v.out \o <<",">>, n + 1)
     ELSE IF s[j] = "]"
       THEN [ok |-> TRUE, next |-> j + 1, out |-> acc \o v.out \o <<"]">>, n |-> n + 1]
     ELSE ParseFail

\* the members of an object from i on
ParseMembers(s, i, acc) ==
  IF i > Len(s) \/ s[i] # "\"" THEN ParseFail
  ELSE LET k == ParseString(s, i)
           c == SkipWs(s, k.next)
       IN IF ~k.ok \/ c > Len(s) \/ s[c] # ":" THEN ParseFail
          ELSE LET v == ParseValue(s, SkipWs(s, c + 1))
                   j == SkipWs(s, v.next)
               IN IF ~v.ok \/ j > Len(s) THEN ParseFail
                  ELSE IF s[j] = ","
                    THEN ParseMembers(s, SkipWs(s, j + 1),
                                      acc \o k.out \o <<":">> \o v.out \o <<",">>)
                  ELSE IF s[j] = "}"
                    THEN [ok |-> TRUE, next |-> j + 1,
                          out |-> acc \o k.out \o <<":">> \o v.out \o <<"}">>, n |-> 0]
                  ELSE ParseFail

\* JSON.parse(str): one value, whitespace around it, nothing else
JSONParse(s) ==
  LET v == ParseValue(s, SkipWs(s, 1))
  IN IF v.ok /\ SkipWs(s, v.next) = Len(s) + 1 THEN v ELSE ParseFail

(***************************************************************************)
(* GET /catalog/:provider                                                  *)
(***************************************************************************)
Servers == {"dev-server.js", "part_000"}

\* JSON text of an entry { title, filter }, of a list of entries
JsonEntry(e) ==
  <<"{">> \o JsonString(<<"title">>) \o <<":">> \o JsonString(e.title) \o <<",">>
          \o JsonString(<<"filter">>) \o <<":">> \o JsonString(e.filter) \o <<"}">>
RECURSIVE JsonEntriesFrom(_, _)
JsonEntriesFrom(es, i) ==
  IF i > Len(es) THEN <<>>
  ELSE (IF i > 1 THEN <<",">> ELSE <<>>) \o JsonEntry(es[i]) \o JsonEntriesFrom(es, i + 1)
JsonArray(es) == <<"[">> \o JsonEntriesFrom(es, 1) \o <<"]">>

EmptyArray == [out |-> <<"[", "]">>, n |-> 0]

\* [{ title: 'Popular', filter: '' }, { title: 'Latest', filter: 'latest' }]
DefaultCatalog ==
  [out |-> JsonArray(<<[title |-> <<"Popular">>, filter |-> <<>>],
                       [title |-> <<"Latest">>, filter |-> <<"latest">>]>>),
   n |-> 2]

\* one declaration as the handler reads it: the match, and JSON.parse of the
\* normalized capture
Extract(text, name) ==
  LET m == MatchDecl(text, name)
      v == IF m.found THEN JSONParse(Normalize(m.group)) ELSE ParseFail
  IN [found |-> m.found, ok |-> v.ok, value |-> [out |-> v.out, n |-> v.n]]

\* (mutant) the default is never substituted
KeepEmpty(catalog) == catalog
\* if (catalog.length === 0) catalog = [ Popular, Latest ]
FallbackIfEmpty(catalog) == IF catalog.n = 0 THEN DefaultCatalog ELSE catalog

\* responses: res.json({ catalog, genres }), res.json(catalog), and
\* res.status(500).json({ error: error.message })
CatalogAndGenres(catalog, genres) ==
  [status |-> 200, shape |-> "object", catalog |-> catalog.out, genres |-> genres.out,
   error |-> ""]
CatalogOnly(catalog) ==
  [status |-> 200, shape |-> "array", catalog |-> catalog.out, genres |-> <<>>,
   error |-> ""]
CatalogError(message) ==
  [status |-> 500, shape |-> "error", catalog |-> <<>>, genres |-> <<>>,
   error |-> message]
NoCatalogResponse ==
  [status |-> 0, shape |-> "none", catalog |-> <<>>, genres |-> <<>>, error |-> ""]

\* the handler of dev-server.js
CatalogHandler(file) ==
  LET c == Extract(file.text, "catalog")
      g == Extract(file.text, "genres")
      catalog == IF file.exists /\ c.ok THEN c.value ELSE EmptyArray
      genres == IF file.exists /\ g.ok THEN g.value ELSE EmptyArray
  IN CatalogAndGenres(FallbackIfEmpty(catalog), genres)

\* the handler of part_000: a parsed catalog is sent as it is; the catch of a
\* failed parse logs catalogStr, which is declared inside the try block and
\* is not in scope there, so the catch throws a ReferenceError that the outer
\* catch answers
CatalogHandlerOld(file) ==
  LET c == Extract(file.text, "catalog")
  IN IF file.exists /\ c.found
       THEN IF c.ok THEN CatalogOnly(c.value)
                    ELSE CatalogError("catalogStr is not defined")
       ELSE CatalogOnly(DefaultCatalog)

\* (mutant) a handler that answers from the file only the first time
HandleCatalogOnce(srv, file) ==
  IF catalogResult.response.shape # "none" THEN CatalogError("already served")
  ELSE IF srv = "dev-server.js" THEN CatalogHandler(file) ELSE CatalogHandlerOld(file)
HandleCatalog(srv, file) ==
  IF srv = "dev-server.js" THEN CatalogHandler(file) ELSE CatalogHandlerOld(file)

(***************************************************************************)
(* The catalog.ts files drawn                                              *)
(***************************************************************************)
NoFile == [exists |-> FALSE, text |-> <<>>]
File(text) == [exists |-> TRUE, text |-> text]

\* TypeScript text of an entry with unquoted keys; q is the quote of the values
TsEntry(e, q) ==
  <<"{", " ", "title", ":", " ", q>> \o e.title \o <<q, ",", " ", "filter", ":", " ", q>>
    \o e.filter \o <<q, " ", "}">>

\* the entries declared under a name
Entries(name) ==
  IF name = "catalog"
    THEN <<[title |-> <<"Trending">>, filter |-> <<>>],
           [title |-> <<"New", " ", "Movies">>, filter |-> <<"movies">>]>>
    ELSE <<[title |-> <<"Action">>, filter |-> <<"action">>],
           [title |-> <<"Sci", "-", "Fi">>, filter |-> <<"scifi">>]>>

\* an entry whose title holds a colon
ColonEntry == [title |-> <<"Top", ":", " ", "Week">>, filter |-> <<"top">>]

\* the array literals drawn for a declaration, by kind
ArrayLiteral(name, kind) ==
  LET es == Entries(name)
  IN CASE kind = "empty" -> <<"[", "]">>
       [] kind = "one" ->
            <<"[", "\n", " ", " ">> \o TsEntry(es[1], "'") \o <<",", "\n", "]">>
       [] kind = "two" ->
            <<"[">> \o TsEntry(es[1], "\"") \o <<",", " ">> \o TsEntry(es[2], "'") \o <<"]">>
       [] kind = "colon" -> <<"[">> \o TsEntry(ColonEntry, "\"") \o <<"]">>
       [] kind = "broken" -> <<"[", "{", " ", "title", ":", " ", "'", "A", " ", "}", "]">>
       [] OTHER -> <<>>

\* the entries a literal of that kind declares
DeclaredEntries(name, kind) ==
  CASE kind = "one" -> <<Entries(name)[1]>>
    [] kind = "two" -> Entries(name)
    [] kind = "colon" -> <<ColonEntry>>
    [] OTHER -> <<>>

DeclKinds == {"absent", "empty", "one", "two", "colon", "broken", "unterminated"}

\* the text of a declaration: nothing, or the assignment of a literal, ended
\* by ";" or (unterminated) not ended
DeclText(name, kind) ==
  CASE kind = "absent" -> <<>>
    [] kind = "unterminated" -> DeclPrefix(name) \o ArrayLiteral(name, "one") \o <<"\n">>
    [] OTHER -> DeclPrefix(name) \o ArrayLiteral(name, kind) \o <<";", "\n">>

\* a file: the two declarations in either order
SourceFile(ck, gk, catalogFirst) ==
  File(IF catalogFirst THEN DeclText("catalog", ck) \o DeclText("genres", gk)
                       ELSE DeclText("genres", gk) \o DeclText("catalog", ck))

SourceFiles ==
  {NoFile} \cup {SourceFile(ck, gk, o) : ck \in DeclKinds, gk \in DeclKinds, o \in BOOLEAN}

(***************************************************************************)
(* The catalog route as a state machine                                    *)
(***************************************************************************)
\* again tells that the request before this one read the same file
NoCatalogResult == [file |-> NoFile, response |-> NoCatalogResponse, again |-> FALSE]

CatalogIdle ==
  /\ server = "dev-server.js"
  /\ catalogSource = NoFile
  /\ catalogResult = NoCatalogResult

\* GET /catalog/:provider: the handler is synchronous and reads the file once
CatalogRequest ==
  /\ catalogResult' = [file |-> catalogSource,
                       response |-> HandleCatalog(server, catalogSource),
                       again |-> /\ catalogResult.response.shape # "none"
                                 /\ catalogResult.file = catalogSource]
  /\ UNCHANGED <<server, catalogSource>>

\* the provider's catalog.ts is written, rewritten or removed
EditSource(file) ==
  /\ catalogSource # file
  /\ catalogSource' = file
  /\ UNCHANGED <<server, catalogResult>>

(***************************************************************************)
(* DevServer.getAvailableProviders and the directory dist                  *)
(***************************************************************************)
\* fs.readdirSync(this.distDir, { withFileTypes: true }): the provider
\* directories, and the file of the provider context when it is there
Dirents ==
  {[name |-> p, isDirectory |-> TRUE] : p \in {x \in Providers : providerDir[x]}}
    \cup (IF artifact[ContextPath].state # "absent"
            THEN {[name |-> "providerContext.js", isDirectory |-> FALSE]}
            ELSE {})

\* (mutant) the first result is kept and returned by the later calls
CachedProviders ==
  IF listing.called THEN listing.names
  ELSE IF ~distRoot THEN {}
  ELSE {item.name : item \in {d \in Dirents : d.isDirectory}}
\* the names returned, in the order readdirSync lists them
getAvailableProviders ==
  IF ~distRoot THEN {}
  ELSE {item.name : item \in {d \in Dirents : d.isDirectory}}

\* no call made yet; tick tells a call from the call before it
NoListing == [called |-> FALSE, tick |-> FALSE, names |-> {}]

RegistryIdle ==
  /\ distRoot = TRUE
  /\ listing = NoListing

\* GET /providers: the whole call runs without a change of dist in between
ListProviders ==
  /\ listing' = [called |-> TRUE, tick |-> ~listing.tick, names |-> getAvailableProviders]
  /\ UNCHANGED <<engineVars, catalogVars, contextVars, distRoot>>

\* mkdir dist/<p>, making dist when it is not there
MakeProviderDir(p) ==
  /\ ~providerDir[p]
  /\ providerDir' = [providerDir EXCEPT ![p] = TRUE]
  /\ distRoot' = TRUE
  /\ UNCHANGED <<artifact, requireCache, builds, calls, req, running, unhandled,
                 catalogVars, contextVars, listing>>

\* dist is removed with everything in it
RemoveDist ==
  /\ distRoot
  /\ distRoot' = FALSE
  /\ providerDir' = [p \in Providers |-> FALSE]
  /\ artifact' = [path \in Paths |-> AbsentArtifact]
  /\ UNCHANGED <<requireCache, builds, calls, req, running, unhandled,
                 catalogVars, contextVars, listing>>

(***************************************************************************)
(* The execution parameters                                                *)
(***************************************************************************)
\* JavaScript values an object can hold under a key: a string, a number, an
\* AbortSignal (n is its allocation) and a module object (n is its version)
StringValue(text) == [type |-> "string", text |-> text, n |-> 0]
NumberValue(n) == [type |-> "number", text |-> "", n |-> n]
SignalValue(signal) == [type |-> "AbortSignal", text |-> "", n |-> signal.id]
ModuleValue(name, handle) == [type |-> "module", text |-> name, n |-> handle.ver]

\* an object: a function from its own keys to values; {} has no keys
EmptyObject == [k \in {} |-> StringValue("")]
\* key: value in an object literal: the key is defined or overwritten
Put(obj, key, value) ==
  [k \in DOMAIN obj \cup {key} |-> IF k = key THEN value ELSE obj[k]]
\* ...src in an object literal: every own key of src is put, in turn
Spread(obj, src) ==
  [k \in DOMAIN obj \cup DOMAIN src |-> IF k \in DOMAIN src THEN src[k] ELSE obj[k]]

\* (mutant) the caller's parameters are spread after the engine's fields
ParamsSpreadLast(params, provider, signal, providerContext) ==
  Spread(Put(Put(Put(EmptyObject,
                     "providerValue", StringValue(provider)),
                 "signal", SignalValue(signal)),
             "providerContext", ModuleValue("providerContext", providerContext)),
         params)
\* { ...params, providerValue: provider, signal, providerContext }
executionParams(params, provider, signal, providerContext) ==
  Put(Put(Put(Spread(EmptyObject, params),
              "providerValue", StringValue(provider)),
          "signal", SignalValue(signal)),
      "providerContext", ModuleValue("providerContext", providerContext))

\* the keys a request body's params may carry and the values JSON gives them
ParamKeys == {"filter", "page", "providerValue", "signal", "providerContext"}
ParamValues == {StringValue("p2"), NumberValue(7)}
ParamObjects ==
  UNION {[keys -> ParamValues] : keys \in SUBSET ParamKeys}

NoExecution ==
  [built |-> FALSE, params |-> EmptyObject, provider |-> "",
   signal |-> NoSignal, providerContext |-> NoHandle,
   executionParams |-> EmptyObject]
ExecutionIdle == execution = NoExecution

\* the call numbered seq reaches the invocation with a function bound: it
\* makes its signal and builds the object it passes to the function
BuildExecutionParams(provider, params, seq) ==
  LET signal == NewSignal([seq |-> seq])
      providerContext == DiskHandle(ContextPath)
  IN /\ execution' =
          [built |-> TRUE, params |-> params, provider |-> provider,
           signal |-> signal, providerContext |-> providerContext,
           executionParams |->
             executionParams(params, provider, signal, providerContext)]
     /\ UNCHANGED <<engineVars, catalogVars, registryVars>>

(***************************************************************************)
(* Specification of the engine                                             *)
(***************************************************************************)
\* the server starts on a built dist: the provider context and provider p1,
\* which has no episodes artifact; p2 is not built
InitEngine ==
  /\ artifact = [path \in Paths |->
       IF path = ContextPath THEN GoodArtifact(1, {"providerContext"})
       ELSE IF path[1] = "p1" /\ path[2] # "episodes"
         THEN GoodArtifact(1, GroupExports(path[2]))
       ELSE AbsentArtifact]
  /\ providerDir = [p \in Providers |-> p = "p1"]
  /\ requireCache = {}
  /\ builds = 0
  /\ calls = 0
  /\ req = [r \in Reqs |-> IdleReq]
  /\ running = NoReq
  /\ unhandled = FALSE

Init == InitEngine /\ CatalogIdle /\ RegistryIdle /\ ExecutionIdle

Next ==
  \/ \E r \in Reqs, p \in Providers, f \in FunctionNames :
        Call(r, p, f) /\ UNCHANGED <<catalogVars, registryVars, contextVars>>
  \/ \E r \in Reqs : ClearRequireCache(r) /\ UNCHANGED <<catalogVars, registryVars, contextVars>>
  \/ \E r \in Reqs : Reload(r) /\ UNCHANGED <<catalogVars, registryVars, contextVars>>
  \/ \E r \in Reqs, posts \in ProviderResults :
        SettleResult(r, posts) /\ UNCHANGED <<catalogVars, registryVars, contextVars>>
  \/ \E r \in Reqs : \E t \in ProviderThrows(req[r].provider, req[r].functionName) :
        SettleThrow(r, t) /\ UNCHANGED <<catalogVars, registryVars, contextVars>>
  \/ \E path \in BuildPaths : \E ex \in ExportChoices(path[2]) :
        WriteArtifact(path[1], path[2], ex) /\ UNCHANGED <<catalogVars, registryVars, contextVars>>
  \/ \E path \in BuildPaths :
        WritePartial(path[1], path[2]) /\ UNCHANGED <<catalogVars, registryVars, contextVars>>
  \/ \E path \in BuildPaths :
        WriteTruncated(path[1], path[2]) /\ UNCHANGED <<catalogVars, registryVars, contextVars>>
  \/ \E p \in Providers : RemoveProviderDir(p) /\ UNCHANGED <<catalogVars, registryVars, contextVars>>
  \/ WriteProviderContext /\ UNCHANGED <<catalogVars, registryVars, contextVars>>
  \/ RemoveProviderContext /\ UNCHANGED <<catalogVars, registryVars, contextVars>>

Spec == Init /\ [][Next]_vars

(***************************************************************************)
(* Specification of the catalog route                                      *)
(***************************************************************************)
InitCatalog ==
  /\ InitEngine
  /\ server \in Servers
  /\ catalogSource \in SourceFiles
  /\ catalogResult = NoCatalogResult
  /\ RegistryIdle
  /\ ExecutionIdle

NextCatalog ==
  \/ CatalogRequest /\ UNCHANGED <<engineVars, registryVars, contextVars>>
  \/ \E file \in SourceFiles : EditSource(file) /\ UNCHANGED <<engineVars, registryVars, contextVars>>

SpecCatalog == InitCatalog /\ [][NextCatalog]_vars

(***************************************************************************)
(* Specification of the provider registry: dist changes, by builds and by  *)
(* removals, between calls of getAvailableProviders                        *)
(***************************************************************************)
NextRegistry ==
  \/ ListProviders
  \/ \E p \in Providers : MakeProviderDir(p)
  \/ RemoveDist
  \/ \E path \in BuildPaths : \E ex \in ExportChoices(path[2]) :
        /\ WriteArtifact(path[1], path[2], ex)
        /\ distRoot' = TRUE
        /\ UNCHANGED <<catalogVars, contextVars, listing>>
  \/ \E p \in Providers :
        RemoveProviderDir(p) /\ UNCHANGED <<catalogVars, registryVars, contextVars>>
  \/ RemoveProviderContext /\ UNCHANGED <<catalogVars, registryVars, contextVars>>

SpecRegistry == Init /\ [][NextRegistry]_vars

(***************************************************************************)
(* Specification of the execution parameters: calls with every parameter   *)
(* object, for every provider                                              *)
(***************************************************************************)
NextContext ==
  \E provider \in Providers, params \in ParamObjects, seq \in 1..MaxCalls :
    BuildExecutionParams(provider, params, seq)

SpecContext == Init /\ [][NextContext]_vars

(***************************************************************************)
(* Claims about the engine                                                 *)
(***************************************************************************)

\* C1: whatever was cached by earlier calls, the function a call executes is
\* the one the artifact on disk exports at the moment the call binds it, never
\* the function of a handle cached before.
C1_ExecutesArtifactOnDisk ==
  [][\A r \in Reqs :
       (req[r].pc # "awaiting" /\ req'[r].pc = "awaiting") =>
         /\ artifact[modulePath(req'[r])].state = "ok"
         /\ req'[r].providerFunction # NoFn
         /\ req'[r].providerFunction =
              Export(DiskHandle(modulePath(req'[r])), req'[r].functionName)]_vars

\* C1 witness: an earlier call executed version 1 of an artifact and left its
\* handle cached; the artifact was overwritten; a later call for the same key
\* found the cached handle, reloaded once and executes the new version.
C1_Witness ==
  \E r, r2 \in Reqs :
    /\ req[r2].seq = 1 /\ req[r2].pc = "done" /\ req[r2].invocations = 1
    /\ req[r2].providerFunction.ver = 1
    /\ req[r].seq = 2 /\ req[r].pc = "awaiting"
    /\ modulePath(req[r]) = modulePath(req[r2])
    /\ req[r].requires = 2 /\ req[r].loads = 1
    /\ req[r].providerFunction.ver = 2

\* C2 (the claim as stated): a call with a function name outside the five
\* names always fails with 'Unknown function: <name>', never with 'Function
\* not exported: ...', whatever the provider and the state of dist.
C2_UnknownNameAlwaysUnknownFunction ==
  \A r \in Reqs :
    (req[r].pc = "done" /\ req[r].functionName \notin functionMapKeys) =>
      /\ req[r].thrown = UnknownFunction(req[r].functionName)
      /\ req[r].thrown # FunctionNotExported(req[r].functionName, req[r].provider)

C4_MissingExportNotSupported ==
  [][\A r \in Reqs :
       ( /\ req[r].pc = "reload" /\ req'[r].pc # "reload"
         /\ artifact[modulePath(req[r])].state = "ok"
         /\ req[r].functionName \notin artifact[modulePath(req[r])].exports ) =>
           /\ req'[r].pc = "done"
           /\ req'[r].thrown = FunctionNotExported(req[r].functionName, req[r].provider)
           /\ req'[r].invocations = 0
           /\ req'[r].response =
                [status |-> 500,
                 error |-> Msg("Function not exported: ", req[r].functionName,
                               req[r].provider),
                 result |-> NoFn, body |-> <<>>]
           /\ unhandled' = unhandled]_vars

\* C4 witness: a call of a recognized capability loaded the artifact from disk
\* and failed because the export is missing.
C4_Witness ==
  \E r \in Reqs :
    /\ req[r].pc = "done"
    /\ req[r].functionName \in functionMapKeys
    /\ req[r].loads >= 1 /\ req[r].requires = 2
    /\ req[r].thrown = FunctionNotExported(req[r].functionName, req[r].provider)
    /\ req[r].response.status = 500

C6_CatalogNeverErrors ==
  catalogResult.response.shape # "none" =>
    /\ catalogResult.response.status = 200
    /\ catalogResult.response.shape \in {"object", "array"}

\* C7 (the claim as stated): when the catalog is empty after processing - the
\* case of a declared literal that decodes to the empty array included - the
\* catalog of the response is the two-entry default; genres are never replaced
\* by a default, and a response that carries genres carries the empty sequence
\* when they are empty after processing.
C7_EmptyCatalogGivesDefault ==
  LET f == catalogResult.file
      r == catalogResult.response
      c == Extract(f.text, "catalog")
      g == Extract(f.text, "genres")
      processed(x) == IF f.exists /\ x.ok THEN x.value ELSE EmptyArray
  IN r.shape # "none" =>
       /\ processed(c).n = 0 => r.catalog = DefaultCatalog.out
       /\ (r.shape = "object" /\ processed(g).n = 0) => r.genres = <<"[", "]">>

\* C8: the module cache never holds two handles for one key, and while a
\* request is between its first require and its reload (its key evicted or
\* about to be), no other request takes a step.
C8_OneHandleAndAtomicReload ==
  /\ [](\A e1, e2 \in requireCache : e1.path = e2.path => e1 = e2)
  /\ [][\A r \in Reqs :
          req[r].pc \in {"evict", "reload"} =>
            \A r2 \in Reqs \ {r} : req'[r2] = req[r2]]_vars

\* C8 witness: a request has evicted its key and not reloaded it yet, while
\* another request for the same key is suspended in its provider call.
C8_Witness ==
  \E r, r2 \in Reqs :
    /\ r # r2
    /\ req[r].pc = "reload"
    /\ ~Cached(requireCache, modulePath(req[r]))
    /\ req[r2].pc = "awaiting"
    /\ modulePath(req[r2]) = modulePath(req[r])

\* C9 (the claim as stated): when the provider function throws or rejects, the
\* route answers with an error that carries the thrown value's message and
\* differs from every resolution error, and no error leaves the handler.
C9_ProviderErrorClassified ==
  \A r \in Reqs :
    (req[r].pc = "done" /\ req[r].invocations = 1 /\ req[r].thrown # NoThrow) =>
      /\ req[r].response.status = 500
      /\ req[r].thrown.kind = "Error" => req[r].response.error = req[r].thrown.message
      /\ req[r].response.error[1] \notin ResolutionErrorTexts
      /\ ~unhandled

C11_ResultPassedThrough ==
  \A r \in Reqs :
    req[r].resolved =>
      LET decoded == JSONParse(req[r].response.body)
      IN /\ req[r].pc = "done"
         /\ req[r].invocations = 1
         /\ req[r].response.status = 200
         /\ req[r].response.error = NoMsg
         /\ decoded.ok
         /\ decoded.n = Len(req[r].returned)
         /\ decoded.out = JsonPosts(req[r].returned)

\* C11 witness: a getPosts call whose function returned the three posts was
\* answered with the text of these three posts.
C11_Witness ==
  \E r \in Reqs :
    /\ req[r].resolved /\ req[r].functionName = "getPosts"
    /\ req[r].returned = ThreePosts
    /\ JSONParse(req[r].response.body).n = 3
    /\ req[r].response.body = JsonPosts(ThreePosts)

\* C12 (the claim as stated): when catalog.ts declares a well-formed catalog
\* literal with entries and a well-formed genres literal, the response carries
\* a catalog and a genres sequence, each holding the declared entries in the
\* declared order.
C12_DeclaredEntriesReturned ==
  LET f == catalogResult.file
      r == catalogResult.response
  IN r.shape # "none" =>
       \A ck \in {"one", "two", "colon"}, gk \in {"empty", "one", "two", "colon"} :
         \A o \in BOOLEAN :
           f = SourceFile(ck, gk, o) =>
             /\ r.status = 200 /\ r.shape = "object"
             /\ r.catalog = JsonArray(DeclaredEntries("catalog", ck))
             /\ r.genres = JsonArray(DeclaredEntries("genres", gk))

\* C13: the binding is fixed. A step of a call touches, besides the provider
\* context, only the cache entry of the one artifact its capability is bound
\* to (posts for getPosts and getSearchPosts, meta, stream and episodes for
\* getMeta, getStream and getEpisodes), and the function it binds is the export
\* named like the capability, read from the handle of that artifact.
C13_FixedBinding ==
  [][LET group(f) == CASE f \in {"getPosts", "getSearchPosts"} -> "posts"
                       [] f = "getMeta" -> "meta"
                       [] f = "getStream" -> "stream"
                       [] f = "getEpisodes" -> "episodes"
                       [] OTHER -> "no module"
         home(q) == <<q.provider, group(q.functionName)>>
     IN /\ \A e \in (requireCache' \ requireCache) \cup (requireCache \ requireCache') :
             \/ e.path = ContextPath
             \/ \E r \in Reqs : req'[r] # req[r] /\ e.path = home(req'[r])
        /\ \A r \in Reqs :
             (req'[r].providerFunction # NoFn
                /\ req'[r].providerFunction # req[r].providerFunction) =>
               /\ req'[r].providerFunction.name = req'[r].functionName
               /\ Cached(requireCache', home(req'[r]))
               /\ req'[r].providerFunction =
                    Export(CachedHandle(requireCache', home(req'[r])),
                           req'[r].functionName)]_vars

\* C13 witness: a getSearchPosts call and a getMeta call of one provider are
\* both awaiting their functions, bound from the posts and the meta artifact.
C13_Witness ==
  \E r, r2 \in Reqs :
    /\ req[r].pc = "awaiting" /\ req[r].functionName = "getSearchPosts"
    /\ req[r].providerFunction.name = "getSearchPosts"
    /\ req[r2].pc = "awaiting" /\ req[r2].functionName = "getMeta"
    /\ req[r2].providerFunction.name = "getMeta"
    /\ req[r].provider = req[r2].provider
    /\ Cached(requireCache, <<req[r].provider, "posts">>)
    /\ Cached(requireCache, <<req[r].provider, "meta">>)

\* C14: every invocation gets a signal of its own. The signal an invocation
\* receives was held by no request before, two requests never hold the same
\* signal, and a signal is not aborted when the function is called nor at any
\* time after.
C14_FreshSignalNeverAborted ==
  /\ [](\A r, r2 \in Reqs :
          /\ (req[r].invocations > 0) = (req[r].signal # NoSignal)
          /\ ~req[r].signal.aborted
          /\ (r # r2 /\ req[r].signal # NoSignal) => req[r].signal.id # req[r2].signal.id)
  /\ [][\A r \in Reqs :
          req'[r].invocations > req[r].invocations =>
            /\ req'[r].signal # NoSignal
            /\ \A r2 \in Reqs : req'[r].signal.id # req[r2].signal.id]_vars

\* C14 witness: the second call, made in the slot of the first one after it
\* ended, and while no other request runs, was invoked with another signal.
C14_Witness ==
  \E r \in Reqs :
    /\ req[r].seq = 2 /\ req[r].pc = "awaiting"
    /\ req[r].signal.id = 2 /\ ~req[r].signal.aborted
    /\ \A r2 \in Reqs \ {r} : req[r2].pc = "idle"

\* C15: every call of getAvailableProviders returns the names of the
\* directories that exist under dist when it is made - no file, and nothing
\* when dist is absent - whatever an earlier call returned.
C15_ListsDirectoriesAtCallTime ==
  [][listing' # listing =>
       /\ listing'.called
       /\ listing'.names = {p \in Providers : distRoot /\ providerDir[p]}
       /\ "providerContext.js" \notin listing'.names]_vars

\* C15 witness: a call made after p1 was removed and p2 was made, with the
\* file of the provider context still in dist, returned p2 alone.
C15_Witness ==
  /\ listing.called /\ listing.names = {"p2"}
  /\ distRoot /\ providerDir["p2"] /\ ~providerDir["p1"]
  /\ artifact[ContextPath].state = "ok"

\* C16: a call invokes the provider function at most once: once when its
\* resolution succeeds, never when the resolution ends in an error, and the
\* count does not change when the invocation settles, by a value or by a
\* throw.
C16_InvokedAtMostOnce ==
  /\ [](\A r \in Reqs :
          /\ req[r].invocations \in {0, 1}
          /\ (req[r].pc = "awaiting" \/ req[r].resolved) => req[r].invocations = 1)
  /\ [][\A r \in Reqs :
          /\ ResolutionEnds(r) =>
               \/ req'[r].pc = "awaiting" /\ req'[r].invocations = 1
                    /\ req'[r].thrown = NoThrow
               \/ req'[r].pc = "done" /\ req'[r].invocations = 0
                    /\ req'[r].thrown.kind = "Error"
                    /\ req'[r].thrown.message[1] \in
                         ResolutionErrorTexts \cup {"Cannot find module "}
          /\ (req[r].pc = "awaiting" /\ req'[r].seq = req[r].seq) =>
               req'[r].invocations = 1]_vars

\* C16 witness: one request ended after its function threw, another ended in
\* a resolution error; the first was invoked once, the second never.
C16_Witness ==
  \E r, r2 \in Reqs :
    /\ req[r].pc = "done" /\ req[r].thrown = ErrorOf(Msg("boom", "", ""))
    /\ req[r].invocations = 1
    /\ req[r2].pc = "done" /\ req[r2].importError = "MODULE_NOT_FOUND"
    /\ req[r2].invocations = 0

C18_OneResultOrOneError ==
  \A r \in Reqs :
    req[r].pc = "done" =>
      /\ req[r].response # NoResponse
      /\ \/ /\ req[r].response.status = 200
            /\ req[r].response.body # <<>>
            /\ req[r].response.error = NoMsg
         \/ /\ req[r].response.status = 500
            /\ req[r].response.body = <<>>
            /\ req[r].response.error # NoMsg

\* C19: once the provider context is loaded, its module stays in the cache
\* unchanged, whatever is built or removed in dist, and every call gets this
\* one module: any two requests that were invoked hold the same one.
C19_OneProviderContext ==
  /\ [](\A r, r2 \in Reqs :
          /\ req[r].invocations > 0 =>
               /\ req[r].context # NoHandle
               /\ Cached(requireCache, ContextPath)
               /\ req[r].context = CachedHandle(requireCache, ContextPath)
          /\ (req[r].invocations > 0 /\ req[r2].invocations > 0) =>
               req[r].context = req[r2].context)
  /\ [][Cached(requireCache, ContextPath) =>
          /\ Cached(requireCache', ContextPath)
          /\ CachedHandle(requireCache', ContextPath) =
               CachedHandle(requireCache, ContextPath)]_vars

\* C19 witness: the provider context was rebuilt after the first call loaded
\* it; the second call evicted and reloaded its module artifact and is invoked
\* with the provider context the first call got.
C19_Witness ==
  \E r, r2 \in Reqs :
    /\ req[r].seq = 1 /\ req[r].invocations = 1 /\ req[r].context.ver = 1
    /\ req[r2].seq = 2 /\ req[r2].pc = "awaiting" /\ req[r2].loads = 1
    /\ req[r2].requires = 2
    /\ req[r2].context = req[r].context
    /\ artifact[ContextPath].state = "ok" /\ artifact[ContextPath].ver > 1

C21_UnknownNameLeavesCacheAlone ==
  [][\A r \in Reqs :
       (req'[r] # req[r] /\ req'[r].functionName \notin functionMapKeys) =>
         /\ req'[r].requires = 0 /\ req'[r].loads = 0
         /\ requireCache' = requireCache]_vars

\* C21 (amended): a call with a function name outside the five names requires
\* no module artifact of a provider, evicts nothing and invokes nothing; the
\* module cache is as before the call but for the provider context, which is
\* required before the name is looked up and is loaded and cached when it was
\* not cached yet.
C21_UnknownNameLoadsOnlyContext ==
  [][\A r \in Reqs :
       (req'[r] # req[r] /\ req'[r].functionName \notin functionMapKeys) =>
         /\ req'[r].requires = 0 /\ req'[r].loads = 0
         /\ req'[r].invocations = 0
         /\ req'[r].providerFunction = NoFn
         /\ requireCache \subseteq requireCache'
         /\ \A e \in requireCache' \ requireCache :
              /\ e.path = ContextPath
              /\ ~Cached(requireCache, ContextPath)
              /\ e.handle = DiskHandle(ContextPath)]_vars

\* C21 witness: the first call of the server carried an unknown name; it
\* failed with 'Unknown function' and left the provider context, and nothing
\* else, in the module cache.
C21_Witness ==
  \E r \in Reqs :
    /\ calls = 1 /\ req[r].seq = 1 /\ req[r].pc = "done"
    /\ req[r].thrown = UnknownFunction("bogus")
    /\ requireCache = {[path |-> ContextPath, handle |-> req[r].context]}
    /\ req[r].context # NoHandle

\* C23: a resolution for (provider p, module group g) evicts and reloads only
\* the cache entry of (p, g). In every step of a call, ending in a function
\* bound or in an error, the entry of every other module artifact, of another
\* provider or of another group of p, is present after the step exactly when
\* it was before and holds the same handle; and no step of the build process
\* touches the cache.
C23_OtherKeysUntouched ==
  [][/\ \A r \in Reqs :
          req'[r] # req[r] =>
            \A path \in Paths \ {ContextPath, modulePath(req'[r])} :
              {e \in requireCache' : e.path = path}
                = {e \in requireCache : e.path = path}
     /\ (req' = req) => (requireCache' = requireCache)]_vars

\* C23 witness: a call for the posts of a provider evicted its key and failed
\* in the second require, while the handle of the meta artifact of the same
\* provider, loaded by the call before and rebuilt on disk since, is cached
\* as it was.
C23_Witness ==
  \E r, r2 \in Reqs :
    /\ r # r2
    /\ req[r].seq = 1 /\ req[r].functionName = "getMeta"
    /\ req[r].provider = "p1" /\ req[r].providerFunction # NoFn
    /\ req[r2].seq = 2 /\ req[r2].functionName = "getPosts"
    /\ req[r2].provider = "p1" /\ req[r2].pc = "done"
    /\ req[r2].requires = 2 /\ req[r2].importError # ""
    /\ ~Cached(requireCache, ModulePath("p1", "posts"))
    /\ Cached(requireCache, ModulePath("p1", "meta"))
    /\ CachedHandle(requireCache, ModulePath("p1", "meta")).ver
         = req[r].providerFunction.ver
    /\ artifact[ModulePath("p1", "meta")].ver
         # req[r].providerFunction.ver

\* C24: an invocation suspended in its awaited provider call keeps the
\* function it bound in its own resolution. No step of another request (its
\* eviction and reload of the same key included) and no rebuild of the
\* artifact changes the function or the provider context of a request that is
\* awaiting, and when the request resolves, its result is the one of the
\* function it bound.
C24_InFlightKeepsItsFunction ==
  [][\A r \in Reqs :
       req[r].pc = "awaiting" =>
         /\ req'[r].seq = req[r].seq
         /\ req'[r].providerFunction = req[r].providerFunction
         /\ req'[r].context = req[r].context
         /\ req'[r].invocations = req[r].invocations
         /\ req'[r].pc \in {"awaiting", "done"}
         /\ (req'[r].pc = "awaiting") => (req'[r] = req[r])
         /\ (req'[r].pc = "done" /\ req'[r].resolved) =>
              req'[r].response.result = req[r].providerFunction]_vars

\* C24 witness: the first request is still suspended in the function of the
\* first build after the artifact was rebuilt and a second request for the
\* same key evicted and reloaded it and was suspended in the function of the
\* new build, which is the one the cache holds.
C24_Witness ==
  \E r, r2 \in Reqs :
    /\ req[r].seq = 1 /\ req[r2].seq = 2
    /\ req[r].provider = req[r2].provider
    /\ req[r].functionName = "getPosts" /\ req[r2].functionName = "getPosts"
    /\ req[r].pc = "awaiting"
    /\ req[r].providerFunction = [ver |-> 1, name |-> "getPosts"]
    /\ req[r2].pc = "awaiting"
    /\ req[r2].providerFunction.ver > 1
    /\ Cached(requireCache, modulePath(req[r2]))
    /\ CachedHandle(requireCache, modulePath(req[r2])).ver
         = req[r2].providerFunction.ver

\* C25: in a resolution of one of the five capabilities that ends in the
\* function being called, the artifact is read from disk once when a handle
\* for the key was cached before the call and twice when none was: the first
\* require reads the file exactly when the key is not cached, the eviction
\* reads nothing, and the second require always reads it. The function called
\* is the export of that last read, and afterwards the cache holds one handle
\* for the key, the one of the last read.
C25_LoadsOnceOrTwice ==
  [][\A r \in Reqs :
       LET q == req'[r]
           path == modulePath(q)
       IN /\ (q.seq # req[r].seq /\ q.pc = "evict"
                /\ q.functionName \in functionMapKeys) =>
               /\ q.requires = 1
               /\ q.loads = IF Cached(requireCache, path) THEN 0 ELSE 1
               /\ Cached(requireCache', path)
          /\ (req[r].pc = "evict" /\ q # req[r]
                /\ q.functionName \in functionMapKeys) =>
               /\ q.pc = "reload"
               /\ q.loads = req[r].loads /\ q.requires = 1
               /\ ~Cached(requireCache', path)
          /\ (req[r].pc # "awaiting" /\ q.pc = "awaiting") =>
               /\ req[r].pc = "reload"
               /\ q.requires = 2
               /\ q.loads = req[r].loads + 1
               /\ q.loads \in {1, 2}
               /\ q.providerFunction = Export(DiskHandle(path), q.functionName)
               /\ {e \in requireCache' : e.path = path}
                    = {[path |-> path, handle |-> DiskHandle(path)]}]_vars

\* C25 witness: the first call for a key found no handle cached and read the
\* artifact twice; the second call for the same key found the handle of the
\* first cached and read the artifact once; both are suspended in their
\* functions and the cache holds one handle for the key.
C25_Witness ==
  \E r, r2 \in Reqs :
    /\ req[r].seq = 1 /\ req[r2].seq = 2
    /\ req[r].pc = "awaiting" /\ req[r2].pc = "awaiting"
    /\ modulePath(req[r]) = modulePath(req[r2])
    /\ req[r].loads = 2 /\ req[r].requires = 2
    /\ req[r2].loads = 1 /\ req[r2].requires = 2
    /\ Cardinality({e \in requireCache : e.path = modulePath(req[r2])}) = 1

\* C22: in the object passed to the provider function, providerValue, signal
\* and providerContext hold the engine's values (the provider requested, the
\* signal made by this call, the provider context module), whatever the
\* caller's params carry under those keys; every other key of params is there
\* with the caller's value, and there is no further key.
C22_EngineFieldsWin ==
  execution.built =>
    LET e == execution.executionParams
        engineKeys == {"providerValue", "signal", "providerContext"}
    IN /\ DOMAIN e = DOMAIN execution.params \cup engineKeys
       /\ e["providerValue"] = [type |-> "string", text |-> execution.provider, n |-> 0]
       /\ e["signal"] = [type |-> "AbortSignal", text |-> "", n |-> execution.signal.id]
       /\ e["providerContext"]
            = [type |-> "module", text |-> "providerContext",
               n |-> execution.providerContext.ver]
       /\ execution.providerContext = DiskHandle(ContextPath)
       /\ execution.signal.id > 0 /\ ~execution.signal.aborted
       /\ \A k \in DOMAIN execution.params \ engineKeys :
            e[k] = execution.params[k]

\* C22 witness: the caller's params carried all three of the engine's keys,
\* each with a value that is not the engine's, and two keys of its own; the
\* object built holds the five keys.
C22_Witness ==
  /\ execution.built
  /\ DOMAIN execution.params = ParamKeys
  /\ execution.provider = "p1"
  /\ execution.params["providerValue"] = StringValue("p2")
  /\ execution.params["signal"] = NumberValue(7)
  /\ execution.params["providerContext"] = StringValue("p2")
  /\ execution.params["filter"] = StringValue("p2")
  /\ execution.params["page"] = NumberValue(7)
  /\ DOMAIN execution.executionParams = ParamKeys

====
